---- MODULE Spec2Model ----
(***************************************************************************)
(* Model of randajan/group-map: the three grouped collections MapMap,      *)
(* MapSet and MapArray (src/src/*.js).  Each class extends the native Map; *)
(* the outer Map sends a group id to an inner Map, Set or Array object.    *)
(*                                                                         *)
(* Objects live in a heap and are named by references, so that a returned  *)
(* inner collection is the very object the store holds (getAll, flush).    *)
(* A native Map/Set keeps insertion order, so both are modelled as         *)
(* sequences; Map keys, Set members and Array.prototype.includes compare   *)
(* with SameValueZero, Array.prototype.indexOf with strict equality.       *)
(*                                                                         *)
(* src/src/MapSet.js holds two declarations of MapSet; the model follows   *)
(* the second one (lines 110-228), the class of the add/set/delete/flush   *)
(* family that the file exports by default.                                *)
(***************************************************************************)
EXTENDS Integers, Sequences, FiniteSets, TLC

VARIABLES kind, outer, heap, call, ret, pre, written, held

vars == <<kind, outer, heap, call, ret, pre, written, held>>

\* ------------------------------------------------------------------ bounds
\* largest number of variadic arguments of one call
MaxArgs == 2
\* largest number of items stored in the whole structure
MaxSize == 3

\* ------------------------------------------------------------------ domains
Kinds == {"MapMap", "MapSet", "MapArray"}
Groups == {"g1", "g2"}
\* values of the set and list variants; NaN is the one value that is not
\* strictly equal to itself
Items == {"a", "b", "NaN"}
\* keys of the keyed variant
Keys == {"a", "b"}
\* values stored under a key in the keyed variant
Vals == {"x", "y"}

RECURSIVE SeqsUpTo(_, _)
SeqsUpTo(S, n) ==
    IF n = 0 THEN {<<>>}
    ELSE LET shorter == SeqsUpTo(S, n - 1)
         IN  shorter \cup {Append(s, x) : s \in {t \in shorter : Len(t) = n - 1}, x \in S}

ArgLists == SeqsUpTo(Items, MaxArgs)
KeyLists == SeqsUpTo(Keys, MaxArgs)

\* ------------------------------------------------------------------ values
Undefined == [type |-> "undefined"]
This == [type |-> "this"]
Bool(b) == [type |-> "boolean", b |-> b]
Ref(r) == [type |-> "ref", ref |-> r]
Val(v) == [type |-> "value", v |-> v]
\* an iterator object: what it walks (src: the outer Map, an inner collection,
\* or "group" for a generator that has not run yet and looks its group up on
\* the first next()), that group, the inner collection it is bound to, what
\* it yields of an entry, and how many entries of the walked collection lie
\* behind it
Iter(src, g, r, of, pos) ==
    [type |-> "iterator", src |-> src, g |-> g, ref |-> r, of |-> of, pos |-> pos]
\* sub.keys(), sub.values(), sub.entries(), sub[Symbol.iterator]()
InnerIter(sub, of) == Iter("inner", "", sub.ref, of, 0)
\* the generator object a call of *valuesOf(groupId) returns
Generator(g) == Iter("group", g, 0, "values", 0)
OuterIter == Iter("outer", "", 0, "entries", 0)
DoneIter == Iter("done", "", 0, "", 0)
NoIter == Iter("none", "", 0, "", 0)
\* what next() returns: { value, done }
IterResult(v, d) == [type |-> "result", value |-> v, done |-> d]
\* a call that ends in an exception
Throw(e) == [type |-> "throw", error |-> e]

\* x === y
StrictEquals(x, y) == x = y /\ x # "NaN"
\* SameValueZero(x, y): Map keys, Set members, Array.prototype.includes
SameValueZero(x, y) == x = y

\* ------------------------------------------------------------------ heap
NewMap == [cls |-> "Map", items |-> <<>>]
NewSet == [cls |-> "Set", items |-> <<>>]
NewArray == [cls |-> "Array", items |-> <<>>]

\* the reference of a freshly constructed object
Alloc(h) ==
    CHOOSE r \in 1..(Cardinality(DOMAIN h) + 1) :
        /\ r \notin DOMAIN h
        /\ \A q \in 1..(r - 1) : q \in DOMAIN h

Put(h, r, obj) == [q \in (DOMAIN h) \cup {r} |-> IF q = r THEN obj ELSE h[q]]

OuterRefs(o) == {o[i].ref : i \in 1..Len(o)}

\* objects no longer reachable from the store or from the returned value go
Collect(h, o, rv) ==
    LET live == OuterRefs(o) \cup (IF rv.type = "ref" THEN {rv.ref} ELSE {})
    IN  [r \in live |-> h[r]]

\* ------------------------------------------------------------------ native Map (outer)
Remove(s, i) == [j \in 1..(Len(s) - 1) |-> IF j < i THEN s[j] ELSE s[j + 1]]

SuperHas(o, g) == \E i \in 1..Len(o) : o[i].g = g
GroupIdx(o, g) == CHOOSE i \in 1..Len(o) : o[i].g = g
SuperGet(o, g) == IF SuperHas(o, g) THEN Ref(o[GroupIdx(o, g)].ref) ELSE Undefined
SuperSet(o, g, r) ==
    IF SuperHas(o, g)
    THEN [o EXCEPT ![GroupIdx(o, g)] = [g |-> g, ref |-> r]]
    ELSE Append(o, [g |-> g, ref |-> r])
SuperDelete(o, g) == IF SuperHas(o, g) THEN Remove(o, GroupIdx(o, g)) ELSE o

\* !sub
Falsy(v) == v.type = "undefined"

\* ------------------------------------------------------------------ native inner Map
\* items is a sequence of <<key, value>> in insertion order
InnerMapHas(m, k) == \E i \in 1..Len(m) : SameValueZero(m[i][1], k)
KeyIdx(m, k) == CHOOSE i \in 1..Len(m) : SameValueZero(m[i][1], k)
InnerMapGet(m, k) == IF InnerMapHas(m, k) THEN Val(m[KeyIdx(m, k)][2]) ELSE Undefined
InnerMapSet(m, k, v) ==
    IF InnerMapHas(m, k) THEN [m EXCEPT ![KeyIdx(m, k)] = <<k, v>>] ELSE Append(m, <<k, v>>)
InnerMapDelete(m, k) == IF InnerMapHas(m, k) THEN Remove(m, KeyIdx(m, k)) ELSE m

\* ------------------------------------------------------------------ native Set
\* items is a sequence of distinct values in insertion order
SetHas(s, v) == \E i \in 1..Len(s) : SameValueZero(s[i], v)
SetAdd(s, v) == IF SetHas(s, v) THEN s ELSE Append(s, v)
SetDelete(s, v) ==
    IF SetHas(s, v) THEN Remove(s, CHOOSE i \in 1..Len(s) : SameValueZero(s[i], v)) ELSE s
RECURSIVE SetFrom(_, _)
\* new Set(values), values added left to right
SetFrom(s, values) ==
    IF values = <<>> THEN s ELSE SetFrom(SetAdd(s, Head(values)), Tail(values))

\* ------------------------------------------------------------------ native Array
Includes(a, v) == \E i \in 1..Len(a) : SameValueZero(a[i], v)
\* first index of v, 0 when there is none (JavaScript: -1)
IndexOf(a, v) ==
    IF \E i \in 1..Len(a) : StrictEquals(a[i], v)
    THEN CHOOSE i \in 1..Len(a) :
            /\ StrictEquals(a[i], v)
            /\ \A j \in 1..(i - 1) : ~StrictEquals(a[j], v)
    ELSE 0
\* arr.splice(idx, 1)
Splice(a, i) == Remove(a, i)

\* ------------------------------------------------------------------ results
\* what a method leaves behind: the outer Map, the heap and the returned value
Res(o, h, r) == [o |-> o, h |-> h, r |-> r]

\* the items of the inner collection a reference value names
ItemsOf(h, sub) == h[sub.ref].items
WithItems(h, sub, items) == [h EXCEPT ![sub.ref].items = items]

\* ------------------------------------------------------------------ iterators
\* what an iterator yields of entry e of collection obj
Yield(obj, e, of) ==
    IF obj.cls # "Map" THEN Val(e)
    ELSE IF of = "keys" THEN Val(e[1])
    ELSE IF of = "values" THEN Val(e[2])
    ELSE <<Val(e[1]), Val(e[2])>>

\* next() of a native iterator against store (o, h)
Advance(it, o, h) ==
    IF it.src = "inner" /\ it.pos < Len(h[it.ref].items)
    THEN [it |-> [it EXCEPT !.pos = @ + 1],
          r |-> IterResult(Yield(h[it.ref], h[it.ref].items[it.pos + 1], it.of), FALSE)]
    ELSE IF it.src = "outer" /\ it.pos < Len(o)
    THEN [it |-> [it EXCEPT !.pos = @ + 1],
          r |-> IterResult(<<Val(o[it.pos + 1].g), Ref(o[it.pos + 1].ref)>>, FALSE)]
    ELSE [it |-> DoneIter, r |-> IterResult(Undefined, TRUE)]

\* it.next(): a generator that has not run yet first does
\* const sub = super.get(groupId); if (sub) { yield* sub; }
IterNext(it, o, h) ==
    IF it.src # "group" THEN Advance(it, o, h)
    ELSE LET sub == SuperGet(o, it.g)
         IN  IF Falsy(sub) THEN [it |-> DoneIter, r |-> IterResult(Undefined, TRUE)]
             ELSE Advance(InnerIter(sub, "values"), o, h)

\* [...it]: what the iterator yields when it is run to its end at once
RECURSIVE Drain(_, _, _)
Drain(it, o, h) ==
    LET n == IterNext(it, o, h)
    IN  IF n.r.done THEN <<>> ELSE <<n.r.value>> \o Drain(n.it, o, h)

\* the key under which a Map or Set holds entry e
EntryKey(obj, e) == IF obj.cls = "Map" THEN e[1] ELSE e
\* where an iterator stands after a call took the store from (o, h) to
\* (o2, h2): a Map or Set iterator has the entries behind it that are still
\* there (entries only leave or are appended); an Array iterator keeps its index
IterAfter(it, o, h, o2, h2) ==
    IF it.src = "inner" /\ h[it.ref].cls # "Array"
    THEN LET old == h[it.ref]
             new == h2[it.ref]
             Stays(i) == \E j \in 1..Len(new.items) :
                            EntryKey(new, new.items[j]) = EntryKey(old, old.items[i])
         IN  [it EXCEPT !.pos = Cardinality({i \in 1..it.pos : Stays(i)})]
    ELSE IF it.src = "outer"
    THEN [it EXCEPT !.pos = Cardinality({i \in 1..it.pos : SuperHas(o2, o[i].g)})]
    ELSE it

\* ------------------------------------------------------------------ MapMap
MapMapHas(o, h, g) == Res(o, h, Bool(SuperHas(o, g)))

MapMapHasSub(o, h, g, key) ==
    LET sub == SuperGet(o, g)
    IN  Res(o, h, IF Falsy(sub) THEN Undefined ELSE Bool(InnerMapHas(ItemsOf(h, sub), key)))

MapMapHasAll(o, h, g, keys) ==
    LET sub == SuperGet(o, g)
    IN  IF Falsy(sub) THEN Res(o, h, Bool(FALSE))
        ELSE Res(o, h, Bool(\A i \in 1..Len(keys) : InnerMapHas(ItemsOf(h, sub), keys[i])))

MapMapHasAny(o, h, g, keys) ==
    LET sub == SuperGet(o, g)
    IN  IF Falsy(sub) THEN Res(o, h, Bool(FALSE))
        ELSE Res(o, h, Bool(\E i \in 1..Len(keys) : InnerMapHas(ItemsOf(h, sub), keys[i])))

MapMapGet(o, h, g, key) ==
    LET sub == SuperGet(o, g)
    IN  Res(o, h, IF Falsy(sub) THEN Undefined ELSE InnerMapGet(ItemsOf(h, sub), key))

\* mutant: hands out a copy of the group's Map
MapMapGetAllCopy(o, h, g) ==
    LET sub == SuperGet(o, g)
        r == Alloc(h)
    IN  IF Falsy(sub) THEN Res(o, h, Undefined)
        ELSE Res(o, WithItems(Put(h, r, NewMap), Ref(r), ItemsOf(h, sub)), Ref(r))

MapMapGetAll(o, h, g) == Res(o, h, SuperGet(o, g))

\* mutant: a key that is already there keeps its value
MapMapSetKeepsFirst(o, h, g, key, value) ==
    LET got == SuperGet(o, g)
        r == Alloc(h)
        sub == IF Falsy(got) THEN Ref(r) ELSE got
        o1 == IF Falsy(got) THEN SuperSet(o, g, r) ELSE o
        h1 == IF Falsy(got) THEN Put(h, r, NewMap) ELSE h
    IN  IF InnerMapHas(ItemsOf(h1, sub), key) THEN Res(o1, h1, This)
        ELSE Res(o1, WithItems(h1, sub, InnerMapSet(ItemsOf(h1, sub), key, value)), This)

MapMapSet(o, h, g, key, value) ==
    LET got == SuperGet(o, g)
        r == Alloc(h)
        sub == IF Falsy(got) THEN Ref(r) ELSE got
        o1 == IF Falsy(got) THEN SuperSet(o, g, r) ELSE o
        h1 == IF Falsy(got) THEN Put(h, r, NewMap) ELSE h
    IN  Res(o1, WithItems(h1, sub, InnerMapSet(ItemsOf(h1, sub), key, value)), This)

RECURSIVE MapMapDeleteLoop(_, _, _)
\* for (const k of keys) { ... }
MapMapDeleteLoop(sub, out, keys) ==
    IF keys = <<>> THEN [sub |-> sub, out |-> out]
    ELSE LET k == Head(keys)
         IN  IF ~InnerMapHas(sub, k) THEN MapMapDeleteLoop(sub, out, Tail(keys))
             ELSE LET v == InnerMapGet(sub, k).v
                  IN  MapMapDeleteLoop(InnerMapDelete(sub, k), InnerMapSet(out, k, v), Tail(keys))

MapMapDelete(o, h, g, keys) ==
    LET out == Alloc(h)
        h0 == Put(h, out, NewMap)
        sub == SuperGet(o, g)
    IN  IF Len(keys) = 0 THEN Res(o, h0, Ref(out))
        ELSE IF Falsy(sub) THEN Res(o, h0, Ref(out))
        ELSE LET done == MapMapDeleteLoop(ItemsOf(h0, sub), <<>>, keys)
                 h1 == WithItems(WithItems(h0, sub, done.sub), Ref(out), done.out)
             IN  Res(IF Len(done.sub) = 0 THEN SuperDelete(o, g) ELSE o, h1, Ref(out))

\* mutant: the inner Map is returned but the group stays
MapMapFlushKeepsGroup(o, h, g) ==
    LET sub == SuperGet(o, g)
        r == Alloc(h)
    IN  IF Falsy(sub) THEN Res(o, Put(h, r, NewMap), Ref(r))
        ELSE Res(o, h, sub)

MapMapFlush(o, h, g) ==
    LET sub == SuperGet(o, g)
        r == Alloc(h)
    IN  IF Falsy(sub) THEN Res(o, Put(h, r, NewMap), Ref(r))
        ELSE Res(SuperDelete(o, g), h, sub)

MapMapKeysOf(o, h, g) ==
    LET sub == SuperGet(o, g)
    IN  Res(o, h, IF Falsy(sub) THEN Undefined ELSE InnerIter(sub, "keys"))

MapMapValuesOf(o, h, g) ==
    LET sub == SuperGet(o, g)
    IN  Res(o, h, IF Falsy(sub) THEN Undefined ELSE InnerIter(sub, "values"))

MapMapEntriesOf(o, h, g) ==
    LET sub == SuperGet(o, g)
    IN  Res(o, h, IF Falsy(sub) THEN Undefined ELSE InnerIter(sub, "entries"))

\* Map.prototype[Symbol.iterator], which none of the three classes overrides:
\* an iterator of [groupId, inner collection] pairs over the outer Map
NativeIterator(o, h) == Res(o, h, OuterIter)

\* Map.prototype.clear, which none of the three classes overrides
NativeClear(o, h) == Res(<<>>, h, Undefined)

\* ------------------------------------------------------------------ MapSet
MapSetHas(o, h, g) == Res(o, h, Bool(SuperHas(o, g)))

MapSetHasSub(o, h, g, value) ==
    LET sub == SuperGet(o, g)
    IN  Res(o, h, IF Falsy(sub) THEN Undefined ELSE Bool(SetHas(ItemsOf(h, sub), value)))

MapSetHasAll(o, h, g, values) ==
    LET sub == SuperGet(o, g)
    IN  IF Falsy(sub) THEN Res(o, h, Bool(FALSE))
        ELSE Res(o, h, Bool(\A i \in 1..Len(values) : SetHas(ItemsOf(h, sub), values[i])))

MapSetHasAny(o, h, g, values) ==
    LET sub == SuperGet(o, g)
    IN  IF Falsy(sub) THEN Res(o, h, Bool(FALSE))
        ELSE Res(o, h, Bool(\E i \in 1..Len(values) : SetHas(ItemsOf(h, sub), values[i])))

\* mutant: the group's Set is replaced by the new values
MapSetAddReplaces(o, h, g, values) ==
    IF Len(values) = 0 THEN Res(o, h, This)
    ELSE LET r == Alloc(h)
         IN  Res(SuperSet(o, g, r), Put(h, r, [NewSet EXCEPT !.items = SetFrom(<<>>, values)]), This)

MapSetAdd(o, h, g, values) ==
    IF Len(values) = 0 THEN Res(o, h, This)
    ELSE LET got == SuperGet(o, g)
             r == Alloc(h)
             sub == IF Falsy(got) THEN Ref(r) ELSE got
             o1 == IF Falsy(got) THEN SuperSet(o, g, r) ELSE o
             h1 == IF Falsy(got) THEN Put(h, r, NewSet) ELSE h
         IN  Res(o1, WithItems(h1, sub, SetFrom(ItemsOf(h1, sub), values)), This)

MapSetSet(o, h, g, values) ==
    IF Len(values) # 0
    THEN LET r == Alloc(h)
         IN  Res(SuperSet(o, g, r), Put(h, r, [NewSet EXCEPT !.items = SetFrom(<<>>, values)]), This)
    ELSE Res(SuperDelete(o, g), h, This)

RECURSIVE MapSetDeleteLoopNoSkip(_, _, _)
\* mutant: a named value is reported whether or not the group held it
MapSetDeleteLoopNoSkip(sub, removed, values) ==
    IF values = <<>> THEN [sub |-> sub, removed |-> removed]
    ELSE LET v == Head(values)
         IN  MapSetDeleteLoopNoSkip(SetDelete(sub, v), SetAdd(removed, v), Tail(values))

RECURSIVE MapSetDeleteLoop(_, _, _)
\* for (const v of values) { ... }
MapSetDeleteLoop(sub, removed, values) ==
    IF values = <<>> THEN [sub |-> sub, removed |-> removed]
    ELSE LET v == Head(values)
         IN  IF ~SetHas(sub, v) THEN MapSetDeleteLoop(sub, removed, Tail(values))
             ELSE MapSetDeleteLoop(SetDelete(sub, v), SetAdd(removed, v), Tail(values))

MapSetDelete(o, h, g, values) ==
    LET removed == Alloc(h)
        h0 == Put(h, removed, NewSet)
        sub == SuperGet(o, g)
    IN  IF Len(values) = 0 THEN Res(o, h0, Ref(removed))
        ELSE IF Falsy(sub) THEN Res(o, h0, Ref(removed))
        ELSE LET done == MapSetDeleteLoop(ItemsOf(h0, sub), <<>>, values)
                 h1 == WithItems(WithItems(h0, sub, done.sub), Ref(removed), done.removed)
             IN  Res(IF Len(done.sub) = 0 THEN SuperDelete(o, g) ELSE o, h1, Ref(removed))

MapSetFlush(o, h, g) ==
    LET sub == SuperGet(o, g)
        r == Alloc(h)
    IN  IF Falsy(sub) THEN Res(o, Put(h, r, NewSet), Ref(r))
        ELSE Res(SuperDelete(o, g), h, sub)

\* *valuesOf: calling a generator function runs none of its body; the group is
\* looked up by the first next() (IterNext)
\* mutant: an absent group is created on the way
MapSetValuesOfCreates(o, h, g) ==
    LET sub == SuperGet(o, g)
        r == Alloc(h)
    IN  IF Falsy(sub) THEN Res(SuperSet(o, g, r), Put(h, r, NewSet), Generator(g))
        ELSE Res(o, h, Generator(g))

MapSetValuesOf(o, h, g) == Res(o, h, Generator(g))

\* Map.prototype.get, which MapSet does not override: the group's Set itself
MapSetGet(o, h, g) == Res(o, h, SuperGet(o, g))

\* the class declares no keysOf and Map.prototype has none: instance.keysOf is
\* undefined and calling it throws
MapSetKeysOf(o, h, g) == Res(o, h, Throw("TypeError"))

\* ------------------------------------------------------------------ MapArray
MapArrayHas(o, h, g) == Res(o, h, Bool(SuperHas(o, g)))

MapArrayHasSub(o, h, g, value) ==
    LET sub == SuperGet(o, g)
    IN  Res(o, h, IF Falsy(sub) THEN Bool(FALSE) ELSE Bool(Includes(ItemsOf(h, sub), value)))

MapArrayHasAll(o, h, g, values) ==
    LET sub == SuperGet(o, g)
    IN  IF Falsy(sub) THEN Res(o, h, Bool(FALSE))
        ELSE Res(o, h, Bool(\A i \in 1..Len(values) : Includes(ItemsOf(h, sub), values[i])))

\* mutant: membership by indexOf instead of includes
MapArrayHasAnyIndexOf(o, h, g, values) ==
    LET sub == SuperGet(o, g)
    IN  IF Falsy(sub) THEN Res(o, h, Bool(FALSE))
        ELSE Res(o, h, Bool(\E i \in 1..Len(values) : IndexOf(ItemsOf(h, sub), values[i]) # 0))

MapArrayHasAny(o, h, g, values) ==
    LET sub == SuperGet(o, g)
    IN  IF Falsy(sub) THEN Res(o, h, Bool(FALSE))
        ELSE Res(o, h, Bool(\E i \in 1..Len(values) : Includes(ItemsOf(h, sub), values[i])))

MapArrayAdd(o, h, g, values) ==
    IF Len(values) = 0 THEN Res(o, h, This)
    ELSE LET arr == SuperGet(o, g)
             r == Alloc(h)
         IN  IF ~Falsy(arr) THEN Res(o, WithItems(h, arr, ItemsOf(h, arr) \o values), This)
             ELSE Res(SuperSet(o, g, r), Put(h, r, [NewArray EXCEPT !.items = values]), This)

\* mutant: the new values are appended to what the group holds
MapArraySetAppends(o, h, g, values) ==
    IF Len(values) # 0
    THEN LET r == Alloc(h)
             old == IF SuperHas(o, g) THEN ItemsOf(h, SuperGet(o, g)) ELSE <<>>
         IN  Res(SuperSet(o, g, r), Put(h, r, [NewArray EXCEPT !.items = old \o values]), This)
    ELSE Res(SuperDelete(o, g), h, This)

MapArraySet(o, h, g, values) ==
    IF Len(values) # 0
    THEN LET r == Alloc(h)
         IN  Res(SuperSet(o, g, r), Put(h, r, [NewArray EXCEPT !.items = values]), This)
    ELSE Res(SuperDelete(o, g), h, This)

RECURSIVE MapArrayDeleteWhile(_, _, _)
\* while ((idx = arr.indexOf(v)) !== -1) { arr.splice(idx, 1); removed.push(v); }
MapArrayDeleteWhile(arr, removed, v) ==
    LET idx == IndexOf(arr, v)
    IN  IF idx = 0 THEN [arr |-> arr, removed |-> removed]
        ELSE MapArrayDeleteWhile(Splice(arr, idx), Append(removed, v), v)

RECURSIVE MapArrayDeleteLoop(_, _, _)
\* for (const v of values) { ... }
MapArrayDeleteLoop(arr, removed, values) ==
    IF values = <<>> THEN [arr |-> arr, removed |-> removed]
    ELSE LET step == MapArrayDeleteWhile(arr, removed, Head(values))
         IN  MapArrayDeleteLoop(step.arr, step.removed, Tail(values))

\* mutant: the emptied group is not dropped
MapArrayDeleteKeepsEmpty(o, h, g, values) ==
    LET removed == Alloc(h)
        h0 == Put(h, removed, NewArray)
        arr == SuperGet(o, g)
    IN  IF Len(values) = 0 THEN Res(o, h0, Ref(removed))
        ELSE IF Falsy(arr) THEN Res(o, h0, Ref(removed))
        ELSE LET done == MapArrayDeleteLoop(ItemsOf(h0, arr), <<>>, values)
                 h1 == WithItems(WithItems(h0, arr, done.arr), Ref(removed), done.removed)
             IN  Res(o, h1, Ref(removed))

MapArrayDelete(o, h, g, values) ==
    LET removed == Alloc(h)
        h0 == Put(h, removed, NewArray)
        arr == SuperGet(o, g)
    IN  IF Len(values) = 0 THEN Res(o, h0, Ref(removed))
        ELSE IF Falsy(arr) THEN Res(o, h0, Ref(removed))
        ELSE LET done == MapArrayDeleteLoop(ItemsOf(h0, arr), <<>>, values)
                 h1 == WithItems(WithItems(h0, arr, done.arr), Ref(removed), done.removed)
             IN  Res(IF Len(done.arr) = 0 THEN SuperDelete(o, g) ELSE o, h1, Ref(removed))

\* mutant: the group keeps the array that is handed out
MapArrayFlushKeepsGroup(o, h, g) ==
    LET sub == SuperGet(o, g)
        r == Alloc(h)
    IN  IF Falsy(sub) THEN Res(o, Put(h, r, NewArray), Ref(r))
        ELSE Res(o, h, sub)

MapArrayFlush(o, h, g) ==
    LET sub == SuperGet(o, g)
        r == Alloc(h)
    IN  IF Falsy(sub) THEN Res(o, Put(h, r, NewArray), Ref(r))
        ELSE Res(SuperDelete(o, g), h, sub)

\* *valuesOf: calling a generator function runs none of its body; the group is
\* looked up by the first next() (IterNext)
MapArrayValuesOf(o, h, g) == Res(o, h, Generator(g))

\* Map.prototype.get, which MapArray does not override: the group's Array itself
MapArrayGet(o, h, g) == Res(o, h, SuperGet(o, g))

\* the class declares no keysOf and Map.prototype has none: instance.keysOf is
\* undefined and calling it throws
MapArrayKeysOf(o, h, g) == Res(o, h, Throw("TypeError"))

\* ------------------------------------------------------------------ state machine
\* the number of items stored in the whole structure
Size(o, h) ==
    LET RECURSIVE Sum(_)
        Sum(i) == IF i = 0 THEN 0 ELSE Len(h[o[i].ref].items) + Sum(i - 1)
    IN  Sum(Len(o))

\* at most one extra argument after the group id
ExtraArgs == {xs \in ArgLists : Len(xs) <= 1}
ExtraKeys == {xs \in KeyLists : Len(xs) <= 1}

Idle == [op |-> "idle", g |-> "", args |-> <<>>]
NoStore == [outer |-> <<>>, heap |-> <<>>]

\* written[g][k]: the value of the latest set(g, k, value) that no later
\* delete(g, ..k..) or flush(g) has taken back; NoValue when there is none
NoValue == "-"
NothingWritten == [g \in Groups |-> [k \in Keys |-> NoValue]]
WrittenAfter(op, g, args) ==
    IF kind # "MapMap" THEN written
    ELSE IF op = "set" THEN [written EXCEPT ![g][args[1]] = args[2]]
    ELSE IF op = "delete"
         THEN [written EXCEPT ![g] = [k \in Keys |-> IF k \in {args[i] : i \in 1..Len(args)}
                                                      THEN NoValue ELSE written[g][k]]]
    ELSE IF op = "flush" THEN [written EXCEPT ![g] = [k \in Keys |-> NoValue]]
    ELSE IF op = "clear" THEN NothingWritten
    ELSE written

\* held: what the caller has kept of a returned value: the collection from a
\* getAll, flush or delete, or an iterator: the call it came from, its group,
\* the reference of the collection (of the one the iterator is bound to; 0
\* when it is bound to none), the items a flush or delete handed over in it,
\* (getAll) whether the group has been in the store ever since, and the
\* iterator
NoHeld ==
    [from |-> "none", g |-> "", ref |-> 0, snap |-> <<>>, attached |-> FALSE, it |-> NoIter]
HeldRefs == {held.ref} \ {0}
\* the kept collection is not one the store holds
HeldLoose == held.ref # 0 /\ held.ref \notin OuterRefs(outer)
\* the items the caller keeps alive outside the store
HeldSize == IF HeldLoose THEN Len(heap[held.ref].items) ELSE 0

Init ==
    /\ kind \in Kinds
    /\ outer = <<>>
    /\ heap = <<>>
    /\ call = Idle
    /\ ret = Undefined
    /\ pre = NoStore
    /\ written = NothingWritten
    /\ held = NoHeld

\* one method call op(g, ...args) that leaves res behind; pre keeps the
\* store the call started from
Step(op, g, args, res) ==
    /\ call = Idle
    /\ Size(res.o, res.h) + (IF held.ref # 0 /\ held.ref \notin OuterRefs(res.o)
                               THEN Len(res.h[held.ref].items) ELSE 0) <= MaxSize
    /\ pre' = [outer |-> outer, heap |-> heap]
    /\ call' = [op |-> op, g |-> g, args |-> args]
    /\ outer' = res.o
    /\ heap' = [r \in (DOMAIN Collect(res.h, res.o, res.r)) \cup HeldRefs |-> res.h[r]]
    /\ ret' = res.r
    /\ written' = WrittenAfter(op, g, args)
    /\ held' = [held EXCEPT !.attached = @ /\ SuperHas(res.o, held.g),
                            !.it = IterAfter(@, outer, heap, res.o, res.h)]
    /\ UNCHANGED kind

\* the store's objects renumbered in the outer Map's order
Compact(o, h) ==
    [o |-> [i \in 1..Len(o) |-> [g |-> o[i].g, ref |-> i]],
     h |-> [i \in 1..Len(o) |-> h[o[i].ref]]]

\* the renumbered heap when the caller keeps object r besides the store's
\* objects (r = 0: keeps none), and the new reference of r
CompactKeeping(o, h, r) ==
    IF r = 0 \/ r \in OuterRefs(o) THEN Compact(o, h).h
    ELSE [i \in 1..(Len(o) + 1) |-> IF i <= Len(o) THEN h[o[i].ref] ELSE h[r]]
RefAfterCompact(o, r) ==
    IF r = 0 THEN 0
    ELSE IF r \in OuterRefs(o) THEN CHOOSE i \in 1..Len(o) : o[i].ref = r
    ELSE Len(o) + 1

\* the caller lets go of the returned value before the next call; what only
\* that value kept alive is collected
Discard ==
    /\ call # Idle
    /\ outer' = Compact(outer, heap).o
    /\ heap' = CompactKeeping(outer, heap, held.ref)
    /\ call' = Idle
    /\ ret' = Undefined
    /\ pre' = NoStore
    /\ held' = [held EXCEPT !.ref = RefAfterCompact(outer, held.ref),
                            !.it.ref = RefAfterCompact(outer, @)]
    /\ UNCHANGED <<kind, written>>

\* the caller keeps the value a call returned in place of letting it go
Keep(from) ==
    /\ call.op = from
    /\ ret.type = "ref"
    /\ held.from = "none"
    /\ outer' = Compact(outer, heap).o
    /\ heap' = CompactKeeping(outer, heap, ret.ref)
    /\ call' = Idle
    /\ ret' = Undefined
    /\ pre' = NoStore
    /\ held' = [from |-> from, g |-> call.g, ref |-> RefAfterCompact(outer, ret.ref),
                snap |-> IF from = "getAll" THEN <<>> ELSE heap[ret.ref].items,
                attached |-> from = "getAll", it |-> NoIter]
    /\ UNCHANGED <<kind, written>>

\* the caller keeps the Map that getAll returned
KeepGetAll == held.from = "none" /\ Keep("getAll")
\* the caller keeps the collection that flush or delete returned
KeepFlushed == held.from = "none" /\ Keep("flush")
KeepDeleted == held.from = "none" /\ Keep("delete")

\* a call the caller makes on the Map m that getAll returned, recorded like a
\* method call of the instance: the items of m after it and what it returns
HeldStep(op, args, items, r) ==
    /\ call = Idle
    /\ held.from = "getAll"
    /\ heap' = WithItems(heap, held, items)
    /\ Size(outer, heap') + (IF HeldLoose THEN Len(items) ELSE 0) <= MaxSize
    /\ pre' = [outer |-> outer, heap |-> heap]
    /\ call' = [op |-> op, g |-> held.g, args |-> args]
    /\ ret' = r
    /\ written' = IF ~held.attached THEN written
                  ELSE IF op = "m.set" THEN [written EXCEPT ![held.g][args[1]] = args[2]]
                  ELSE IF op = "m.delete" THEN [written EXCEPT ![held.g][args[1]] = NoValue]
                  ELSE [written EXCEPT ![held.g] = [k \in Keys |-> NoValue]]
    /\ UNCHANGED <<kind, outer, held>>

\* the caller writes to the Map a getAll returned: m.set(k, v) returns m
HeldMapSet ==
    held.from = "getAll" /\ \E k \in Keys, v \in Vals :
        HeldStep("m.set", <<k, v>>, InnerMapSet(ItemsOf(heap, held), k, v), Ref(held.ref))

\* the caller removes from the Map a getAll returned: m.delete(k) returns
\* whether the key was there
HeldMapDelete ==
    held.from = "getAll" /\ \E k \in Keys :
        HeldStep("m.delete", <<k>>, InnerMapDelete(ItemsOf(heap, held), k),
                 Bool(InnerMapHas(ItemsOf(heap, held), k)))

\* the caller empties the Map a getAll returned: m.clear()
HeldMapClear ==
    held.from = "getAll" /\ HeldStep("m.clear", <<>>, <<>>, Undefined)

\* the caller keeps the iterator that keysOf, valuesOf, entriesOf or
\* iterating the instance returned
KeepIterator ==
    /\ call.op \in {"keysOf", "valuesOf", "entriesOf", "iterate"}
    /\ ret.type = "iterator"
    /\ held.from = "none"
    /\ outer' = Compact(outer, heap).o
    /\ heap' = Compact(outer, heap).h
    /\ call' = Idle
    /\ ret' = Undefined
    /\ pre' = NoStore
    /\ held' = [from |-> "iterator", g |-> call.g, ref |-> RefAfterCompact(outer, ret.ref),
                snap |-> <<>>, attached |-> FALSE,
                it |-> [ret EXCEPT !.ref = RefAfterCompact(outer, @)]]
    /\ UNCHANGED <<kind, written>>

\* the caller calls next() on the iterator it kept
HeldNext ==
    /\ call = Idle
    /\ held.from = "iterator"
    /\ pre' = [outer |-> outer, heap |-> heap]
    /\ call' = [op |-> "next", g |-> held.g, args |-> <<>>]
    /\ ret' = IterNext(held.it, outer, heap).r
    /\ held' = [held EXCEPT !.it = IterNext(held.it, outer, heap).it,
                            !.ref = IterNext(held.it, outer, heap).it.ref]
    /\ UNCHANGED <<kind, outer, heap, written>>

\* the caller lets go of the collection it kept
DropHeld ==
    /\ call = Idle
    /\ held.from # "none"
    /\ heap' = Compact(outer, heap).h
    /\ held' = NoHeld
    /\ UNCHANGED <<kind, outer, call, ret, pre, written>>

CallMapMapHas ==
    kind = "MapMap" /\ \E g \in Groups, xs \in ExtraKeys : Step("has", g, xs, MapMapHas(outer, heap, g))
CallMapMapHasSub ==
    kind = "MapMap" /\ \E g \in Groups, k \in Keys :
        Step("hasSub", g, <<k>>, MapMapHasSub(outer, heap, g, k))
CallMapMapHasAll ==
    kind = "MapMap" /\ \E g \in Groups, xs \in KeyLists :
        Step("hasAll", g, xs, MapMapHasAll(outer, heap, g, xs))
CallMapMapHasAny ==
    kind = "MapMap" /\ \E g \in Groups, xs \in KeyLists :
        Step("hasAny", g, xs, MapMapHasAny(outer, heap, g, xs))
CallMapMapGet ==
    kind = "MapMap" /\ \E g \in Groups, k \in Keys :
        Step("get", g, <<k>>, MapMapGet(outer, heap, g, k))
CallMapMapGetAll ==
    kind = "MapMap" /\ \E g \in Groups : Step("getAll", g, <<>>, MapMapGetAll(outer, heap, g))
CallMapMapSet ==
    kind = "MapMap" /\ \E g \in Groups, k \in Keys, v \in Vals :
        Step("set", g, <<k, v>>, MapMapSet(outer, heap, g, k, v))
CallMapMapDelete ==
    kind = "MapMap" /\ \E g \in Groups, xs \in KeyLists :
        Step("delete", g, xs, MapMapDelete(outer, heap, g, xs))
CallMapMapFlush ==
    kind = "MapMap" /\ \E g \in Groups : Step("flush", g, <<>>, MapMapFlush(outer, heap, g))
CallMapMapKeysOf ==
    kind = "MapMap" /\ \E g \in Groups : Step("keysOf", g, <<>>, MapMapKeysOf(outer, heap, g))
CallMapMapValuesOf ==
    kind = "MapMap" /\ \E g \in Groups : Step("valuesOf", g, <<>>, MapMapValuesOf(outer, heap, g))
CallMapMapEntriesOf ==
    kind = "MapMap" /\ \E g \in Groups : Step("entriesOf", g, <<>>, MapMapEntriesOf(outer, heap, g))

CallMapSetHas ==
    kind = "MapSet" /\ \E g \in Groups, xs \in ExtraArgs : Step("has", g, xs, MapSetHas(outer, heap, g))
CallMapSetHasSub ==
    kind = "MapSet" /\ \E g \in Groups, v \in Items :
        Step("hasSub", g, <<v>>, MapSetHasSub(outer, heap, g, v))
CallMapSetHasAll ==
    kind = "MapSet" /\ \E g \in Groups, xs \in ArgLists :
        Step("hasAll", g, xs, MapSetHasAll(outer, heap, g, xs))
CallMapSetHasAny ==
    kind = "MapSet" /\ \E g \in Groups, xs \in ArgLists :
        Step("hasAny", g, xs, MapSetHasAny(outer, heap, g, xs))
CallMapSetAdd ==
    kind = "MapSet" /\ \E g \in Groups, xs \in ArgLists :
        Step("add", g, xs, MapSetAdd(outer, heap, g, xs))
CallMapSetSet ==
    kind = "MapSet" /\ \E g \in Groups, xs \in ArgLists :
        Step("set", g, xs, MapSetSet(outer, heap, g, xs))
CallMapSetDelete ==
    kind = "MapSet" /\ \E g \in Groups, xs \in ArgLists :
        Step("delete", g, xs, MapSetDelete(outer, heap, g, xs))
CallMapSetFlush ==
    kind = "MapSet" /\ \E g \in Groups : Step("flush", g, <<>>, MapSetFlush(outer, heap, g))
CallMapSetValuesOf ==
    kind = "MapSet" /\ \E g \in Groups : Step("valuesOf", g, <<>>, MapSetValuesOf(outer, heap, g))

CallMapSetGet ==
    kind = "MapSet" /\ \E g \in Groups : Step("get", g, <<>>, MapSetGet(outer, heap, g))
CallMapSetKeysOf ==
    kind = "MapSet" /\ \E g \in Groups : Step("keysOf", g, <<>>, MapSetKeysOf(outer, heap, g))

CallMapArrayHas ==
    kind = "MapArray" /\ \E g \in Groups, xs \in ExtraArgs :
        Step("has", g, xs, MapArrayHas(outer, heap, g))
CallMapArrayHasSub ==
    kind = "MapArray" /\ \E g \in Groups, v \in Items :
        Step("hasSub", g, <<v>>, MapArrayHasSub(outer, heap, g, v))
CallMapArrayHasAll ==
    kind = "MapArray" /\ \E g \in Groups, xs \in ArgLists :
        Step("hasAll", g, xs, MapArrayHasAll(outer, heap, g, xs))
CallMapArrayHasAny ==
    kind = "MapArray" /\ \E g \in Groups, xs \in ArgLists :
        Step("hasAny", g, xs, MapArrayHasAny(outer, heap, g, xs))
CallMapArrayAdd ==
    kind = "MapArray" /\ \E g \in Groups, xs \in ArgLists :
        Step("add", g, xs, MapArrayAdd(outer, heap, g, xs))
CallMapArraySet ==
    kind = "MapArray" /\ \E g \in Groups, xs \in ArgLists :
        Step("set", g, xs, MapArraySet(outer, heap, g, xs))
CallMapArrayDelete ==
    kind = "MapArray" /\ \E g \in Groups, xs \in ArgLists :
        Step("delete", g, xs, MapArrayDelete(outer, heap, g, xs))
CallMapArrayFlush ==
    kind = "MapArray" /\ \E g \in Groups : Step("flush", g, <<>>, MapArrayFlush(outer, heap, g))
CallMapArrayValuesOf ==
    kind = "MapArray" /\ \E g \in Groups :
        Step("valuesOf", g, <<>>, MapArrayValuesOf(outer, heap, g))

CallMapArrayGet ==
    kind = "MapArray" /\ \E g \in Groups : Step("get", g, <<>>, MapArrayGet(outer, heap, g))
CallMapArrayKeysOf ==
    kind = "MapArray" /\ \E g \in Groups : Step("keysOf", g, <<>>, MapArrayKeysOf(outer, heap, g))

\* for (const entry of instance): the iterator all three classes inherit
Iterate ==
    kind \in Kinds /\ Step("iterate", "", <<>>, NativeIterator(outer, heap))

\* instance.clear()
Clear ==
    kind \in Kinds /\ Step("clear", "", <<>>, NativeClear(outer, heap))

Next ==
    \/ CallMapMapHas \/ CallMapMapHasSub \/ CallMapMapHasAll \/ CallMapMapHasAny
    \/ CallMapMapGet \/ CallMapMapGetAll \/ CallMapMapSet \/ CallMapMapDelete
    \/ CallMapMapFlush \/ CallMapMapKeysOf \/ CallMapMapValuesOf \/ CallMapMapEntriesOf
    \/ CallMapSetHas \/ CallMapSetHasSub \/ CallMapSetHasAll \/ CallMapSetHasAny
    \/ CallMapSetAdd \/ CallMapSetSet \/ CallMapSetDelete \/ CallMapSetFlush
    \/ CallMapSetValuesOf \/ CallMapSetKeysOf \/ CallMapSetGet
    \/ CallMapArrayHas \/ CallMapArrayHasSub \/ CallMapArrayHasAll \/ CallMapArrayHasAny
    \/ CallMapArrayAdd \/ CallMapArraySet \/ CallMapArrayDelete \/ CallMapArrayFlush
    \/ CallMapArrayValuesOf \/ CallMapArrayKeysOf \/ CallMapArrayGet
    \/ Iterate \/ Clear
    \/ Discard

Spec == Init /\ [][Next]_vars

\* a MapMap together with a caller that keeps the Map getAll returned and
\* reads and writes it
InitLive == Init /\ kind = "MapMap"
NextLive ==
    \/ CallMapMapHas \/ CallMapMapHasSub \/ CallMapMapHasAll \/ CallMapMapHasAny
    \/ CallMapMapGet \/ CallMapMapGetAll \/ CallMapMapSet \/ CallMapMapDelete
    \/ CallMapMapFlush \/ CallMapMapKeysOf \/ CallMapMapValuesOf \/ CallMapMapEntriesOf
    \/ Clear
    \/ Discard
    \/ KeepGetAll \/ HeldMapSet \/ HeldMapDelete \/ HeldMapClear \/ DropHeld

SpecLive == InitLive /\ [][NextLive]_vars

\* an instance together with a caller that keeps the collection flush or
\* delete returned: the calls that change the store and the caller's steps;
\* the reads change no variable and are explored under Spec
NextKept ==
    \/ CallMapMapSet \/ CallMapMapDelete \/ CallMapMapFlush
    \/ CallMapSetAdd \/ CallMapSetSet \/ CallMapSetDelete \/ CallMapSetFlush
    \/ CallMapArrayAdd \/ CallMapArraySet \/ CallMapArrayDelete \/ CallMapArrayFlush
    \/ Clear
    \/ Discard
    \/ KeepFlushed \/ KeepDeleted \/ DropHeld

SpecKept == Init /\ [][NextKept]_vars

\* an instance together with a caller that keeps an iterator and calls
\* next() on it between the calls that change the store
NextIter ==
    \/ CallMapMapKeysOf \/ CallMapMapValuesOf \/ CallMapMapEntriesOf
    \/ CallMapSetValuesOf \/ CallMapArrayValuesOf \/ Iterate
    \/ CallMapMapSet \/ CallMapMapDelete \/ CallMapMapFlush
    \/ CallMapSetAdd \/ CallMapSetSet \/ CallMapSetDelete \/ CallMapSetFlush
    \/ CallMapArrayAdd \/ CallMapArraySet \/ CallMapArrayDelete \/ CallMapArrayFlush
    \/ Clear
    \/ Discard
    \/ KeepIterator \/ HeldNext \/ DropHeld

SpecIter == Init /\ [][NextIter]_vars

\* ------------------------------------------------------------------ views used by the properties
Now == [outer |-> outer, heap |-> heap]
Present(st, g) == \E i \in 1..Len(st.outer) : st.outer[i].g = g
\* the items group g holds in store st, in iteration order; none when absent
Content(st, g) ==
    IF Present(st, g)
    THEN st.heap[st.outer[CHOOSE i \in 1..Len(st.outer) : st.outer[i].g = g].ref].items
    ELSE <<>>
GroupOrder(st) == [i \in 1..Len(st.outer) |-> st.outer[i].g]
Range(s) == {s[i] : i \in 1..Len(s)}
NoRepeat(s) == Cardinality(Range(s)) = Len(s)
SameStore(st1, st2) ==
    /\ GroupOrder(st1) = GroupOrder(st2)
    /\ \A g \in Groups : Content(st1, g) = Content(st2, g)
\* the item identifiers of a group: keys in the keyed variant, values otherwise
Ids(st, g) ==
    IF kind = "MapMap" THEN {e[1] : e \in Range(Content(st, g))} ELSE Range(Content(st, g))
InnerCls == IF kind = "MapMap" THEN "Map" ELSE IF kind = "MapSet" THEN "Set" ELSE "Array"
\* has(g) as the instance answers it in the current state
HasNow(g) ==
    IF kind = "MapMap" THEN MapMapHas(outer, heap, g).r
    ELSE IF kind = "MapSet" THEN MapSetHas(outer, heap, g).r
    ELSE MapArrayHas(outer, heap, g).r
Returned == heap[ret.ref]
\* what the returned iterator yields when the caller runs it to its end
\* right after the call
Yielded == Drain(ret, outer, heap)

\* ------------------------------------------------------------------ C1
\* C1: in every reachable state of each variant has(g) is true exactly when
\* a non-empty inner collection is stored for g (no group is stored empty),
\* and right after a flush, or a delete that removed as many items as the
\* group held, has(g) is false.
C1_GroupExistence ==
    /\ \A g \in Groups :
          (HasNow(g) = Bool(TRUE)) <=>
              (\E i \in 1..Len(outer) : outer[i].g = g /\ Len(heap[outer[i].ref].items) > 0)
    /\ \A i \in 1..Len(outer) : Len(heap[outer[i].ref].items) > 0
    /\ call.op = "flush" => HasNow(call.g) = Bool(FALSE)
    /\ (call.op = "delete" /\ Len(Returned.items) = Len(Content(pre, call.g)))
          => HasNow(call.g) = Bool(FALSE)

\* a delete has just removed the last items of a group that was present
C1_Witness ==
    /\ call.op = "delete"
    /\ Present(pre, call.g)
    /\ Len(Content(pre, call.g)) = 2
    /\ ~Present(Now, call.g)
    /\ Len(outer) = 1

\* ------------------------------------------------------------------ C2
RECURSIVE Flatten(_, _)
\* one tuple per stored item: (g, key, value) in the keyed variant, (g, value)
\* otherwise, groups in outer order, items in inner order
Flatten(st, i) ==
    IF i > Len(st.outer) THEN <<>>
    ELSE LET g == st.outer[i].g
             items == st.heap[st.outer[i].ref].items
         IN  [j \in 1..Len(items) |->
                 IF kind = "MapMap" THEN <<Val(g), Val(items[j][1]), Val(items[j][2])>>
                 ELSE <<Val(g), Val(items[j])>>]
             \o Flatten(st, i + 1)

\* C2: iterating a whole instance yields exactly one (g, key, value) triple
\* (keyed) or (g, value) pair (set, list) per stored item, outer order then
\* inner order, and never a (g, inner collection) pair.
C2_IterationFlattens ==
    call.op = "iterate" =>
        /\ ret.type = "iterator"
        /\ Yielded = Flatten(pre, 1)
        /\ \A i \in 1..Len(Yielded) : \A j \in 1..Len(Yielded[i]) : Yielded[i][j].type # "ref"

\* ------------------------------------------------------------------ C3
\* C3: hasSub(g, x) returns the boolean true exactly when x is present in
\* group g, and the boolean false (no absent-marker) when g is absent.
C3_HasSubBoolean ==
    call.op = "hasSub" => ret = Bool(call.args[1] \in Ids(pre, call.g))

\* ------------------------------------------------------------------ C4
\* C4: has(g, x) with a second argument answers whether x is present inside
\* group g, not merely whether g exists.
C4_HasPair ==
    (call.op = "has" /\ Len(call.args) = 1) => ret = Bool(call.args[1] \in Ids(pre, call.g))

\* ------------------------------------------------------------------ C5
Without(items, gone) == LET Kept(e) == e \notin gone IN SelectSeq(items, Kept)

\* C5: in the keyed and set variants delete(g, ...items) returns exactly the
\* named items that group g held before the call (keyed: each removed key
\* with the value it held; a repeated name reported once), group g then
\* holds its previous items minus the returned ones, and when nothing
\* matches or g is absent the result is empty and the store is unchanged.
C5_DeleteReturnsRemoved ==
    (call.op = "delete" /\ kind \in {"MapMap", "MapSet"}) =>
        LET before == Content(pre, call.g)
            named == Range(call.args)
        IN  /\ ret.type = "ref"
            /\ Returned.cls = InnerCls
            /\ NoRepeat(Returned.items)
            /\ kind = "MapMap" =>
                  /\ Range(Returned.items) = {e \in Range(before) : e[1] \in named}
                  /\ NoRepeat([i \in 1..Len(Returned.items) |-> Returned.items[i][1]])
            /\ kind = "MapSet" => Range(Returned.items) = Range(before) \cap named
            /\ Content(Now, call.g) = Without(before, Range(Returned.items))
            /\ Present(Now, call.g) <=> Content(Now, call.g) # <<>>
            /\ Returned.items = <<>> => SameStore(Now, pre)

\* a keyed delete named one key twice and a key that is not there, removed
\* one entry and left another
C5_Witness ==
    /\ call.op = "delete"
    /\ kind = "MapMap"
    /\ call.args = <<"a", "a">>
    /\ Len(Content(pre, call.g)) = 2
    /\ Len(Returned.items) = 1
    /\ Present(Now, call.g)

\* ------------------------------------------------------------------ C6
Occurrences(items, v) == Cardinality({i \in 1..Len(items) : items[i] = v})

RECURSIVE RemovedInCallOrder(_, _, _)
\* each named value once per occurrence in items, grouped in naming order
RemovedInCallOrder(items, names, seen) ==
    IF names = <<>> THEN <<>>
    ELSE IF Head(names) \in seen THEN RemovedInCallOrder(items, Tail(names), seen)
    ELSE [i \in 1..Occurrences(items, Head(names)) |-> Head(names)]
         \o RemovedInCallOrder(items, Tail(names), seen \cup {Head(names)})

\* C6: in the list variant delete(g, v1..vn) removes every occurrence of each
\* named value, keeps the other elements in their order, returns each named
\* value once per removed occurrence in naming order, and afterwards
\* hasSub(g, vi) is false for every named value.
C6_ListDeleteRemovesAll ==
    (call.op = "delete" /\ kind = "MapArray") =>
        LET before == Content(pre, call.g)
            named == Range(call.args)
        IN  /\ ret.type = "ref"
            /\ Content(Now, call.g) = Without(before, named)
            /\ Returned.items = RemovedInCallOrder(before, call.args, {})
            /\ \A v \in named : MapArrayHasSub(outer, heap, call.g, v).r = Bool(FALSE)

\* ------------------------------------------------------------------ C7
\* C7: flush(g) returns a collection of the variant's kind holding exactly
\* what group g held before the call (order, multiplicities, key-value
\* pairs), empty when g was absent, leaves has(g) false and every other
\* group as it was.
C7_FlushGetAndRemove ==
    call.op = "flush" =>
        /\ ret.type = "ref"
        /\ Returned.cls = InnerCls
        /\ Returned.items = Content(pre, call.g)
        /\ HasNow(call.g) = Bool(FALSE)
        /\ \A g \in Groups \ {call.g} : Content(Now, g) = Content(pre, g)
        /\ ~Present(pre, call.g) => SameStore(Now, pre)

\* a flush took a group of three items out of the store
C7_Witness ==
    /\ call.op = "flush"
    /\ Len(Content(pre, call.g)) = 3
    /\ Len(Returned.items) = 3
    /\ ~Present(Now, call.g)

\* ------------------------------------------------------------------ C8
\* C8: in the set and list variants set(g, v1..vn) with n >= 1 leaves group
\* g holding exactly the collection built from v1..vn (list: the arguments
\* in order; set: their distinct values), whatever it held; with n = 0 it
\* removes group g, changing nothing when g was absent.
C8_ReplaceSet ==
    (call.op = "set" /\ kind \in {"MapSet", "MapArray"}) =>
        /\ Len(call.args) >= 1 =>
              /\ Present(Now, call.g)
              /\ kind = "MapArray" => Content(Now, call.g) = call.args
              /\ kind = "MapSet" =>
                    /\ Range(Content(Now, call.g)) = Range(call.args)
                    /\ NoRepeat(Content(Now, call.g))
        /\ Len(call.args) = 0 =>
              /\ HasNow(call.g) = Bool(FALSE)
              /\ ~Present(pre, call.g) => SameStore(Now, pre)
        /\ \A g \in Groups \ {call.g} : Content(Now, g) = Content(pre, g)

\* a replace on a group that held other values
C8_Witness ==
    /\ call.op = "set"
    /\ kind = "MapArray"
    /\ Content(pre, call.g) = <<"a", "b">>
    /\ call.args = <<"b", "b">>
    /\ Content(Now, call.g) = <<"b", "b">>

\* ------------------------------------------------------------------ C9
\* C9: in the set and list variants add(g, v1..vn) with n >= 1 creates or
\* extends group g (list: the previous list followed by v1..vn; set: the
\* union of the previous set and the arguments, each value once); with
\* n = 0 nothing changes.
C9_AddExtends ==
    (call.op = "add") =>
        /\ Len(call.args) >= 1 =>
              /\ HasNow(call.g) = Bool(TRUE)
              /\ kind = "MapArray" => Content(Now, call.g) = Content(pre, call.g) \o call.args
              /\ kind = "MapSet" =>
                    /\ Range(Content(Now, call.g)) = Range(Content(pre, call.g)) \cup Range(call.args)
                    /\ NoRepeat(Content(Now, call.g))
        /\ Len(call.args) = 0 => SameStore(Now, pre)
        /\ \A g \in Groups \ {call.g} : Content(Now, g) = Content(pre, g)

\* an add appended a value the list already held
C9_Witness ==
    /\ call.op = "add"
    /\ kind = "MapArray"
    /\ Content(pre, call.g) = <<"a">>
    /\ call.args = <<"a">>
    /\ Content(Now, call.g) = <<"a", "a">>

\* ------------------------------------------------------------------ C10
\* C10: hasAll(g, ...xs) is true exactly when g is present and every x is in
\* g, hasAny(g, ...xs) exactly when g is present and some x is in g; both
\* are false on an absent group, and on a present group with no xs hasAll
\* is true and hasAny false.
C10_HasAllHasAny ==
    /\ call.op = "hasAll" =>
          ret = Bool(Present(pre, call.g) /\ \A i \in 1..Len(call.args) : call.args[i] \in Ids(pre, call.g))
    /\ call.op = "hasAny" =>
          ret = Bool(Present(pre, call.g) /\ \E i \in 1..Len(call.args) : call.args[i] \in Ids(pre, call.g))

\* hasAny found NaN in a list after missing another value
C10_Witness ==
    /\ call.op = "hasAny"
    /\ kind = "MapArray"
    /\ call.args = <<"a", "NaN">>
    /\ Content(pre, call.g) = <<"b", "NaN">>
    /\ ret = Bool(TRUE)

\* ------------------------------------------------------------------ C11
\* the values group g holds in store st, in the inner collection's order
ValuesIn(st, g) ==
    [i \in 1..Len(Content(st, g)) |->
        IF kind = "MapMap" THEN Val(Content(st, g)[i][2]) ELSE Val(Content(st, g)[i])]

\* C11: in all three variants valuesOf(g) and keysOf(g) yield an empty
\* sequence, never an absent-marker, for an absent group; valuesOf yields
\* the values of a present group in the inner collection's order; and in
\* the set and list variants keysOf(g) yields what valuesOf(g) yields.
C11_AbsentGroupYieldsNothing ==
    /\ call.op \in {"valuesOf", "keysOf"} =>
          /\ ret.type = "iterator"
          /\ ~Present(pre, call.g) => Yielded = <<>>
    /\ call.op = "valuesOf" => Yielded = ValuesIn(pre, call.g)
    /\ (call.op = "keysOf" /\ kind \in {"MapSet", "MapArray"}) => Yielded = ValuesIn(pre, call.g)

\* ------------------------------------------------------------------ C12
\* get(g, k) and hasSub(g, k) as the keyed instance answers them now
GetNow(g, k) == MapMapGet(outer, heap, g, k).r
HasSubNow(g, k) == MapMapHasSub(outer, heap, g, k).r
EntriesFor(g, k) == {i \in 1..Len(Content(Now, g)) : Content(Now, g)[i][1] = k}

\* C12: in the keyed variant a (g, k) pair has at most one entry and the
\* last write wins: whatever calls on other keys and groups came after the
\* latest set(g, k, v), group g has exactly one entry for k, get(g, k)
\* returns v and hasSub(g, k) is true; get(g, k) returns the absent-marker
\* when g or k is absent.
C12_LastWriteWins ==
    kind = "MapMap" =>
        /\ \A g \in Groups, k \in Keys :
              /\ Cardinality(EntriesFor(g, k)) <= 1
              /\ written[g][k] # NoValue =>
                    /\ Cardinality(EntriesFor(g, k)) = 1
                    /\ GetNow(g, k) = Val(written[g][k])
                    /\ HasSubNow(g, k) = Bool(TRUE)
              /\ k \notin Ids(Now, g) => GetNow(g, k) = Undefined
        /\ (call.op = "get" /\ call.args[1] \notin Ids(pre, call.g)) => ret = Undefined

\* key a of a group was written twice, another key and the other group were
\* written after that, and the second value is the one stored
C12_Witness ==
    /\ kind = "MapMap"
    /\ call.op = "set"
    /\ call.args = <<"a", "y">>
    /\ Content(pre, call.g) = <<<<"a", "x">>, <<"b", "x">>>>
    /\ Content(Now, call.g) = <<<<"a", "y">>, <<"b", "x">>>>
    /\ written[call.g]["a"] = "y"
    /\ Len(outer) = 2

\* ------------------------------------------------------------------ C13
\* the Map the caller keeps from getAll, and what the structure's reads answer
HeldItems == heap[held.ref].items
KeysNow(g) ==
    LET r == MapMapKeysOf(outer, heap, g).r
    IN  IF r.type = "iterator" THEN Drain(r, outer, heap) ELSE <<>>
ValuesNow(g) ==
    LET r == MapMapValuesOf(outer, heap, g).r
    IN  IF r.type = "iterator" THEN Drain(r, outer, heap) ELSE <<>>

\* getAll(g) returns the Map the store holds for g and changes nothing;
\* on an absent group it returns undefined and creates no group
GetAllReturnsStored ==
    (kind = "MapMap" /\ call.op = "getAll") =>
        /\ SameStore(Now, pre)
        /\ outer = pre.outer
        /\ IF Present(pre, call.g)
           THEN ret = SuperGet(outer, call.g) /\ ret.type = "ref"
           ELSE ret = Undefined /\ ~Present(Now, call.g)

\* a write the caller made through the kept Map shows in the structure's
\* get, hasSub, keysOf and valuesOf on the group
SeenByStructure ==
    /\ call.op = "m.set" =>
          /\ GetNow(call.g, call.args[1]) = Val(call.args[2])
          /\ HasSubNow(call.g, call.args[1]) = Bool(TRUE)
          /\ \E i \in 1..Len(KeysNow(call.g)) :
                /\ KeysNow(call.g)[i] = Val(call.args[1])
                /\ ValuesNow(call.g)[i] = Val(call.args[2])
    /\ call.op = "m.delete" =>
          /\ GetNow(call.g, call.args[1]) = Undefined
          /\ HasSubNow(call.g, call.args[1]) # Bool(TRUE)
          /\ Val(call.args[1]) \notin Range(KeysNow(call.g))

\* a set or delete on the group through the structure shows in the kept Map
SeenThroughHeld ==
    /\ (call.op = "set" /\ call.g = held.g) =>
          InnerMapGet(HeldItems, call.args[1]) = Val(call.args[2])
    /\ (call.op = "delete" /\ call.g = held.g) =>
          \A i \in 1..Len(call.args) : ~InnerMapHas(HeldItems, call.args[i])

\* C13 as stated: getAll(g) returns the store's own inner Map (undefined and
\* no new group when g is absent), and from then on every write through the
\* returned Map is seen by get/hasSub/keysOf/valuesOf and every later
\* set/delete on g through the structure is seen through the returned Map
C13_GetAllLive ==
    /\ GetAllReturnsStored
    /\ held.from = "getAll" => SeenByStructure /\ SeenThroughHeld

\* C13 amended: the same, for as long as g has stayed in the store since the
\* getAll (no flush(g) and no delete that emptied g in between); all that
\* time the kept Map is the very Map the store holds for g
C13_GetAllLiveWhilePresent ==
    /\ GetAllReturnsStored
    /\ (held.from = "getAll" /\ held.attached) =>
          /\ SuperGet(outer, held.g) = Ref(held.ref)
          /\ SeenByStructure
          /\ SeenThroughHeld

\* the caller overwrote a value through the kept Map and the structure's get
\* answers the new value
C13_Witness ==
    /\ kind = "MapMap"
    /\ held.from = "getAll" /\ held.attached
    /\ call.op = "m.set"
    /\ InnerMapHas(Content(pre, held.g), call.args[1])
    /\ InnerMapGet(Content(pre, held.g), call.args[1]) # Val(call.args[2])
    /\ GetNow(held.g, call.args[1]) = Val(call.args[2])

\* ------------------------------------------------------------------ C14
\* the reference of the inner collection the store holds for a present group
StoreRef(st, g) == st.outer[CHOOSE i \in 1..Len(st.outer) : st.outer[i].g = g].ref

\* C14: no two groups hold the same inner collection; the collection flush or
\* delete returns is none of the store's, and one the caller keeps stays out
\* of the store with the items it was handed over with, whatever is done to
\* the structure afterwards; a group that add or set creates, and any group
\* the set of the set and list variants writes, holds a collection made in
\* that call
C14_ExclusiveOwnership ==
    /\ \A i, j \in 1..Len(outer) : outer[i].ref = outer[j].ref => i = j
    /\ call.op \in {"flush", "delete"} =>
          ret.type = "ref" /\ ret.ref \notin OuterRefs(outer)
    /\ held.from \in {"flush", "delete"} =>
          held.ref \notin OuterRefs(outer) /\ heap[held.ref].items = held.snap
    /\ ( /\ call.op \in {"add", "set"}
         /\ Present(Now, call.g)
         /\ (kind # "MapMap" /\ call.op = "set") \/ ~Present(pre, call.g) ) =>
          StoreRef(Now, call.g) \notin DOMAIN pre.heap

\* the caller keeps what flush(g) returned, g has been created again with
\* other items, and the kept collection still has the items it came with
C14_Witness ==
    /\ held.from = "flush"
    /\ Len(held.snap) > 0
    /\ call.op \in {"add", "set"} /\ call.g = held.g
    /\ ~Present(pre, held.g) /\ Present(Now, held.g)
    /\ Content(Now, held.g) # held.snap
    /\ heap[held.ref].items = held.snap

\* ------------------------------------------------------------------ C15
Mutators == {"add", "set", "delete", "flush"}
Readers == {"has", "hasSub", "hasAll", "hasAny", "get", "getAll", "keysOf", "valuesOf",
            "entriesOf"}
\* the groups of store st other than g, in the outer Map's order
OtherGroups(st, g) == LET Other(x) == x # g IN SelectSeq(GroupOrder(st), Other)

\* C15: add, set, delete and flush on group g leave every other group as it
\* was: present or absent, the same collection with the same items in the same
\* order, and in the same place among the other groups; the reads leave the
\* whole store as it was and create no group
C15_Frame ==
    /\ call.op \in Mutators =>
          /\ OtherGroups(Now, call.g) = OtherGroups(pre, call.g)
          /\ \A g \in Groups \ {call.g} :
                /\ Present(Now, g) = Present(pre, g)
                /\ Content(Now, g) = Content(pre, g)
                /\ Present(pre, g) => StoreRef(Now, g) = StoreRef(pre, g)
    /\ call.op \in Readers =>
          /\ outer = pre.outer
          /\ SameStore(Now, pre)

\* a delete emptied and removed its group while another group holds two items
C15_Witness ==
    /\ call.op = "delete"
    /\ Present(pre, call.g) /\ ~Present(Now, call.g)
    /\ \E g \in Groups \ {call.g} : Len(Content(Now, g)) = 2

====
